---- MODULE Spec2Model ----
(***************************************************************************)
(* Model of libconcentratord/src/reset.rs: the process-wide registry of    *)
(* GPIO line handles and reset commands (five Mutex<Option<..>> statics),  *)
(* setup_pins(Configuration) which fills it, and reset() which drives the  *)
(* configured lines and commands.  Each thread is a caller of the two      *)
(* public functions; one action is one step of a call between two points   *)
(* where another thread, the kernel or a child process can be observed.    *)
(***************************************************************************)
EXTENDS Integers, Sequences, FiniteSets, TLC

\* ---------------------------------------------------------------- bounds
NumThreads == 2
NumLines == 4
MaxCalls == 3
MaxCmds == 2

Threads == 1..NumThreads
\* the threads that configure; every thread resets
SetupThreads == {1}
Lines == 1..NumLines

\* ---------------------------------------------------------------- Option<T>
None == <<>>
Some(x) == <<x>>
IsSome(o) == o # None
Unwrap(o) == o[1]

\* ---------------------------------------------------------------- statics
PinSlots == {"SX1302_RESET", "SX1302_POWER_EN", "SX1261_RESET", "AD5338R_RESET"}
Slots == PinSlots \cup {"RESET_COMMANDS"}

\* the Configuration field that setup_pins stores into each static
Field == [s \in Slots |->
            CASE s = "SX1302_RESET" -> "sx130x_reset"
              [] s = "SX1302_POWER_EN" -> "sx1302_power_en"
              [] s = "SX1261_RESET" -> "sx1261_reset"
              [] s = "AD5338R_RESET" -> "ad5338r_reset"
              [] s = "RESET_COMMANDS" -> "reset_commands"]

\* the order in which setup_pins examines the pin fields
SetupOrder == <<"SX1302_RESET", "SX1302_POWER_EN", "SX1261_RESET", "AD5338R_RESET">>

\* a reset() that pulses the chip reset line before enabling power
ResetOrderResetFirst ==
    <<"SX1302_RESET", "SX1302_POWER_EN", "SX1261_RESET", "AD5338R_RESET",
      "RESET_COMMANDS">>

\* the order in which reset() locks and drives the statics
ResetOrder == <<"SX1302_POWER_EN", "SX1302_RESET", "SX1261_RESET", "AD5338R_RESET",
                "RESET_COMMANDS">>

\* a reset() that pulses the chip reset line with the polarity of the others
PulseChipActiveLow(s) == IF s = "SX1302_POWER_EN" THEN <<1>> ELSE <<0, 1>>

\* a reset() that pulses every reset line with the polarity of the chip's
PulseAllActiveHigh(s) == IF s = "SX1302_POWER_EN" THEN <<1>> ELSE <<1, 0>>

\* a reset() that asserts each reset line and never releases it
PulseAssertOnly(s) == IF s \in {"SX1302_POWER_EN", "SX1302_RESET"} THEN <<1>> ELSE <<0>>

\* the levels reset() writes to a configured line, in order
Pulse(s) == CASE s = "SX1302_POWER_EN" -> <<1>>
              [] s = "SX1302_RESET" -> <<1, 0>>
              [] s = "SX1261_RESET" -> <<0, 1>>
              [] s = "AD5338R_RESET" -> <<0, 1>>

\* ---------------------------------------------------------------- inputs
\* the lines a caller may name for a pin field: the i-th field names line i,
\* and the first field may also name line 2, so that two fields can name one
\* line and a field can be given a second, different line
SlotIndex(s) == CHOOSE i \in 1..Len(SetupOrder) : SetupOrder[i] = s
CandidateLines(s) == {l \in Lines : l = SlotIndex(s) \/ (SlotIndex(s) = 1 /\ l = 2)}
PinOptions(s) == {None} \cup {Some(l) : l \in CandidateLines(s)}

CommandPool == {<<"cmd_a", <<"1">>>>, <<"cmd_b", <<>>>>}
NoCmd == <<"", <<>>>>

\* exit statuses of a child process: success and failure
ExitCodes == {0, 1}

\* Duration::from_millis(100)
SleepMillis == 100
CommandLists == UNION {[1..n -> CommandPool] : n \in 0..MaxCmds}

\* #[derive(Default)]: every field None
ConfigurationDefault ==
    [sx130x_reset |-> None, sx1302_power_en |-> None, sx1261_reset |-> None,
     ad5338r_reset |-> None, reset_commands |-> None]

\* ---------------------------------------------------------------- state
VARIABLES
    slot,            \* the four Mutex<Option<LineHandle>>: content
    reset_commands,  \* RESET_COMMANDS: content
    mutex,           \* for each static, the thread holding its lock (0: free)
    claimed,         \* kernel: lines this process holds a handle to
    level,           \* hardware: output level of each line
    active,          \* the threads that make calls
    calls,           \* number of calls made so far
    pc,              \* position of each thread in its call
    fn,              \* the function each thread is executing
    config,          \* setup_pins: the argument, as far as the call has read
                     \* it (each field is read once, by its if-let, and is
                     \* drawn there; fields not read yet are None)
    stage,           \* index into SetupOrder / ResetOrder
    pos,             \* index into Pulse(s) / the command list
    handle,          \* setup_pins: line just requested, not yet stored
    trace,           \* operations performed by the call in progress
    before           \* setup_pins: registry content when the call started

vars == <<slot, reset_commands, mutex, claimed, level, active, calls, pc, fn,
          config, stage, pos, handle, trace, before>>

Event(op, s, v, c) == [op |-> op, slot |-> s, val |-> v, cmd |-> c]

Registry == [slot |-> slot, reset_commands |-> reset_commands]
EmptyRegistry == [slot |-> [s \in PinSlots |-> None], reset_commands |-> None]

InitWith(act) ==
    /\ slot = [s \in PinSlots |-> None]
    /\ reset_commands = None
    /\ mutex = [s \in Slots |-> 0]
    /\ claimed = {}
    /\ \E v \in {0, 1} : level = [l \in Lines |-> v]
    /\ active = act
    /\ calls = 0
    /\ pc = [t \in Threads |-> "idle"]
    /\ fn = [t \in Threads |-> "none"]
    /\ config = [t \in Threads |-> ConfigurationDefault]
    /\ stage = [t \in Threads |-> 0]
    /\ pos = [t \in Threads |-> 0]
    /\ handle = [t \in Threads |-> 0]
    /\ trace = [t \in Threads |-> <<>>]
    /\ before = [t \in Threads |-> EmptyRegistry]

Init == InitWith(Threads)
InitSeq == InitWith({1})

\* ---------------------------------------------------------------- helpers
Line(s) == Unwrap(slot[s])

\* MutexGuard dropped: the locks a returning call still holds are released
Unlock(t) == [s \in Slots |-> IF mutex[s] = t THEN 0 ELSE mutex[s]]

\* a reset() that ignores the Result of an operation and goes on
PropagateIgnored(ok, next) == next

\* the `?` on set_value and on Command::output in reset()
Propagate(ok, next) == IF ok THEN next ELSE "ret_err"

\* Command::output(): Ok(Output) whenever the child was spawned and waited
\* for, whatever its exit status
OutputIsOk(code) == TRUE

\* a loop over the stored commands in reverse
CmdAtReversed(list, i) == list[Len(list) + 1 - i]

\* the command the for loop of reset() visits at its i-th iteration
CmdAt(list, i) == list[i]

\* a guard scoped to the block of its step: taking the next lock of the call
\* releases the one before
LockOnlyLatest(s, t) == [x \in Slots |-> IF x = s THEN t ELSE IF mutex[x] = t THEN 0 ELSE mutex[x]]

\* a guard that is a temporary, dropped at the end of its statement
LockDroppedAtOnce(s, t) == mutex

\* <STATIC>.lock().unwrap() with the guard bound to a local: thread t holds
\* the lock of static s
Lock(s, t) == [mutex EXCEPT ![s] = t]

\* a reset() that treats a static that was never configured as an error
AfterLockAbsentFails(o, drive, skip) == IF IsSome(o) THEN drive ELSE "ret_err"

\* what reset() does after locking a static: drive it if is_some, else go on
AfterLock(o, drive, skip) == IF IsSome(o) THEN drive ELSE skip

\* a setup_pins that stores the failed request as None
RequestFailedClears(old) == None

\* content of a static after `*guard = Some(line.request(..)?)` with the
\* request refused: the `?` returns before the assignment
RequestFailed(old) == old

\* `*guard = Some(handle)`: the new content of a static
Assign(old, new) == Some(new)

\* a guard of setup_pins bound for the whole function: kept until return
DropGuardAtReturn(s) == mutex

\* the guard of static s goes out of scope at the end of its if-let block
DropGuard(s) == [mutex EXCEPT ![s] = 0]

\* a command list that is appended to the stored one
StoreCommandsExtends(old, new) ==
    IF IsSome(old) /\ IsSome(new) THEN Some(Unwrap(old) \o Unwrap(new)) ELSE new

\* `*reset_commands_m = Some(reset_commands)`: the given list, as it is
StoreCommands(old, new) == new

\* a handle moved out of its slot (take()) to be driven
BorrowedTaken(sl, s) == [sl EXCEPT ![s] = None]

\* <guard>.as_ref().unwrap(): the handle is borrowed, the slot keeps it
Borrowed(sl, s) == sl

\* a wait of no duration
SleepZero(s) == Event("sleep", s, 0, NoCmd)

\* sleep(Duration::from_millis(100)), at the step of static s: the thread
\* is blocked for the whole duration, nothing can cut the wait short
Sleep(s) == Event("sleep", s, SleepMillis, NoCmd)

\* a replaced handle that is leaked instead of dropped
DroppedLeaked(old) == {}

\* the handle dropped by `*guard = Some(handle)`: its line is released
Dropped(old) == IF IsSome(old) THEN {Unwrap(old)} ELSE {}

\* ---------------------------------------------------------------- calls
CallSetupPins(t) ==
    /\ t \in active \cap SetupThreads /\ pc[t] = "idle" /\ calls < MaxCalls
    /\ calls' = calls + 1
    /\ fn' = [fn EXCEPT ![t] = "setup_pins"]
    /\ stage' = [stage EXCEPT ![t] = 1]
    /\ pc' = [pc EXCEPT ![t] = "s_field"]
    /\ before' = [before EXCEPT ![t] = Registry]
    /\ UNCHANGED <<slot, reset_commands, mutex, claimed, level, active, config,
                   pos, handle, trace>>

CallReset(t) ==
    /\ t \in active /\ pc[t] = "idle" /\ calls < MaxCalls
    /\ calls' = calls + 1
    /\ fn' = [fn EXCEPT ![t] = "reset"]
    /\ stage' = [stage EXCEPT ![t] = 1]
    /\ pc' = [pc EXCEPT ![t] = "r_lock"]
    /\ UNCHANGED <<slot, reset_commands, mutex, claimed, level, active, config,
                   pos, handle, trace, before>>

\* return to the caller: guards still alive are dropped
Return(t) ==
    /\ pc[t] \in {"ret_ok", "ret_err"}
    /\ mutex' = Unlock(t)
    /\ pc' = [pc EXCEPT ![t] = "idle"]
    /\ fn' = [fn EXCEPT ![t] = "none"]
    /\ config' = [config EXCEPT ![t] = ConfigurationDefault]
    /\ stage' = [stage EXCEPT ![t] = 0]
    /\ pos' = [pos EXCEPT ![t] = 0]
    /\ handle' = [handle EXCEPT ![t] = 0]
    /\ trace' = [trace EXCEPT ![t] = <<>>]
    /\ before' = [before EXCEPT ![t] = EmptyRegistry]
    /\ UNCHANGED <<slot, reset_commands, claimed, level, active, calls>>

\* ---------------------------------------------------------------- setup_pins
SetupSlot(t) == SetupOrder[stage[t]]
SetupField(t) == config[t][Field[SetupSlot(t)]]

\* after the if-let block of one pin field: the next field, or reset_commands
SetupAdvance(t) ==
    /\ stage' = [stage EXCEPT ![t] = @ + 1]
    /\ pc' = [pc EXCEPT ![t] = IF stage[t] < Len(SetupOrder) THEN "s_field" ELSE "s_cmds"]

\* an absent field that unconfigures its slot
SkippedClears(sl, s) == [sl EXCEPT ![s] = None]

\* an if-let whose pattern does not match runs nothing: the slot is not read
Skipped(sl, s) == sl

\* `if let Some(..) = config.<field>` with the field None (config[t] holds
\* None for it)
SetupSkip(t) ==
    /\ pc[t] = "s_field"
    /\ slot' = Skipped(slot, SetupSlot(t))
    /\ SetupAdvance(t)
    /\ UNCHANGED <<reset_commands, mutex, claimed, level, active, calls, fn,
                   config, pos, handle, trace, before>>

\* `if let Some((dev, pin)) = config.<field>`, then Chip::new(dev)? and
\* chip.get_line(pin)?: either may fail
SetupOpen(t) ==
    /\ pc[t] = "s_field"
    /\ \E b \in PinOptions(SetupSlot(t)) \ {None} :
          config' = [config EXCEPT ![t][Field[SetupSlot(t)]] = b]
    /\ \E ok \in BOOLEAN : pc' = [pc EXCEPT ![t] = IF ok THEN "s_lock" ELSE "ret_err"]
    /\ UNCHANGED <<slot, reset_commands, mutex, claimed, level, active, calls, fn,
                   stage, pos, handle, trace, before>>

\* a request that leaves the line at the level it had
RequestedKeepsLevel(lv, l) == lv

\* line.request(LineRequestFlags::OUTPUT, 0, ..): an output, default value 0
Requested(lv, l) == [lv EXCEPT ![l] = 0]

\* a request that is granted although this process already holds the line
RequestableAlways(l) == TRUE

\* a request that is granted again to the process whose slot holds the line
RequestableShared(l) == l \notin claimed \/ \E s \in PinSlots : slot[s] = Some(l)

\* the kernel grants a line to one requester at a time
Requestable(l) == l \notin claimed

\* <STATIC>.lock().unwrap(), then line.request(OUTPUT, 0, consumer)?: refused
\* when the line is already requested (by this process or, env = FALSE, by
\* anyone else)
SetupRequest(t) ==
    /\ pc[t] = "s_lock" /\ mutex[SetupSlot(t)] = 0
    /\ mutex' = Lock(SetupSlot(t), t)
    /\ LET l == Unwrap(SetupField(t)) IN
       \E env \in BOOLEAN :
          IF env /\ Requestable(l)
          THEN /\ claimed' = claimed \cup {l}
               /\ level' = Requested(level, l)
               /\ handle' = [handle EXCEPT ![t] = l]
               /\ pc' = [pc EXCEPT ![t] = "s_store"]
               /\ UNCHANGED slot
          ELSE /\ pc' = [pc EXCEPT ![t] = "ret_err"]
               /\ slot' = [slot EXCEPT ![SetupSlot(t)] = RequestFailed(@)]
               /\ UNCHANGED <<claimed, level, handle>>
    /\ UNCHANGED <<reset_commands, active, calls, fn, config, stage, pos,
                   trace, before>>

\* `*guard = Some(handle)`, then the guard goes out of scope
SetupStore(t) ==
    /\ pc[t] = "s_store"
    /\ LET s == SetupSlot(t) IN
       /\ slot' = [slot EXCEPT ![s] = Assign(slot[s], handle[t])]
       /\ claimed' = claimed \ Dropped(slot[s])
       /\ mutex' = DropGuard(s)
    /\ handle' = [handle EXCEPT ![t] = 0]
    /\ SetupAdvance(t)
    /\ UNCHANGED <<reset_commands, level, active, calls, fn, config, pos, trace,
                   before>>

\* `if let Some(..) = config.reset_commands` with the field None, then Ok(())
SetupCmdsSkip(t) ==
    /\ pc[t] = "s_cmds"
    /\ pc' = [pc EXCEPT ![t] = "ret_ok"]
    /\ UNCHANGED <<slot, reset_commands, mutex, claimed, level, active, calls, fn,
                   config, stage, pos, handle, trace, before>>

\* `if let Some(reset_commands) = config.reset_commands` with a list
SetupCmdsSome(t) ==
    /\ pc[t] = "s_cmds"
    /\ \E l \in CommandLists : config' = [config EXCEPT ![t].reset_commands = Some(l)]
    /\ pc' = [pc EXCEPT ![t] = "s_cmds_lock"]
    /\ UNCHANGED <<slot, reset_commands, mutex, claimed, level, active, calls, fn,
                   stage, pos, handle, trace, before>>

\* RESET_COMMANDS.lock().unwrap()
SetupCmdsLock(t) ==
    /\ pc[t] = "s_cmds_lock"
    /\ mutex["RESET_COMMANDS"] = 0
    /\ mutex' = Lock("RESET_COMMANDS", t)
    /\ pc' = [pc EXCEPT ![t] = "s_cmds_store"]
    /\ UNCHANGED <<slot, reset_commands, claimed, level, active, calls, fn, config,
                   stage, pos, handle, trace, before>>

\* `*reset_commands_m = Some(reset_commands)`, guard dropped, Ok(())
SetupCmdsStore(t) ==
    /\ pc[t] = "s_cmds_store"
    /\ reset_commands' = StoreCommands(reset_commands, config[t].reset_commands)
    /\ mutex' = DropGuard("RESET_COMMANDS")
    /\ pc' = [pc EXCEPT ![t] = "ret_ok"]
    /\ UNCHANGED <<slot, claimed, level, active, calls, fn, config, stage, pos,
                   handle, trace, before>>

\* ---------------------------------------------------------------- reset
ResetSlot(t) == ResetOrder[stage[t]]
Record(t, e) == [trace EXCEPT ![t] = Append(@, e)]
Commands == Unwrap(reset_commands)

\* <STATIC>.lock().unwrap() and the is_some() test, for a pin static
ResetLockPin(t) ==
    /\ pc[t] = "r_lock" /\ ResetSlot(t) \in PinSlots
    /\ mutex[ResetSlot(t)] = 0
    /\ mutex' = Lock(ResetSlot(t), t)
    /\ LET next == AfterLock(slot[ResetSlot(t)], "r_set", "r_lock") IN
       /\ pc' = [pc EXCEPT ![t] = next]
       /\ pos' = [pos EXCEPT ![t] = IF next = "r_set" THEN 1 ELSE 0]
       /\ stage' = [stage EXCEPT ![t] = IF next = "r_lock" THEN @ + 1 ELSE @]
    /\ UNCHANGED <<slot, reset_commands, claimed, level, active, calls, fn, config,
                   handle, trace, before>>

\* handle.set_value(v)?
ResetSetValue(t) ==
    /\ pc[t] = "r_set"
    /\ slot' = Borrowed(slot, ResetSlot(t))
    /\ LET s == ResetSlot(t)
           v == Pulse(s)[pos[t]] IN
       \E ok \in BOOLEAN :
          /\ level' = IF ok THEN [level EXCEPT ![Line(s)] = v] ELSE level
          /\ trace' = Record(t, Event(IF ok THEN "set" ELSE "set_err", s, v, NoCmd))
          /\ pc' = [pc EXCEPT ![t] = Propagate(ok, "r_sleep")]
    /\ UNCHANGED <<reset_commands, mutex, claimed, active, calls, fn, config,
                   stage, pos, handle, before>>

\* sleep(Duration::from_millis(100)) after a set_value
ResetSleep(t) ==
    /\ pc[t] = "r_sleep"
    /\ trace' = Record(t, Sleep(ResetSlot(t)))
    /\ IF pos[t] < Len(Pulse(ResetSlot(t)))
       THEN /\ pos' = [pos EXCEPT ![t] = @ + 1]
            /\ pc' = [pc EXCEPT ![t] = "r_set"]
            /\ UNCHANGED stage
       ELSE /\ pos' = [pos EXCEPT ![t] = 0]
            /\ pc' = [pc EXCEPT ![t] = "r_lock"]
            /\ stage' = [stage EXCEPT ![t] = @ + 1]
    /\ UNCHANGED <<slot, reset_commands, mutex, claimed, level, active, calls, fn,
                   config, handle, before>>

\* RESET_COMMANDS.lock().unwrap(), the is_some() test and the loop entry
ResetLockCommands(t) ==
    /\ pc[t] = "r_lock" /\ ResetSlot(t) = "RESET_COMMANDS"
    /\ mutex["RESET_COMMANDS"] = 0
    /\ mutex' = Lock("RESET_COMMANDS", t)
    /\ LET found == AfterLock(reset_commands, "r_spawn", "ret_ok")
           next == IF found = "r_spawn" /\ Len(Commands) = 0 THEN "ret_ok" ELSE found IN
       /\ pc' = [pc EXCEPT ![t] = next]
       /\ pos' = [pos EXCEPT ![t] = IF next = "r_spawn" THEN 1 ELSE 0]
    /\ UNCHANGED <<slot, reset_commands, claimed, level, active, calls, fn, config,
                   stage, handle, trace, before>>

\* Command::new(cmd).args(args).output(): the child is spawned, or not
ResetSpawn(t) ==
    /\ pc[t] = "r_spawn"
    /\ LET c == CmdAt(Commands, pos[t]) IN
       \E ok \in BOOLEAN :
          /\ trace' = Record(t, Event(IF ok THEN "spawn" ELSE "spawn_err",
                                      "RESET_COMMANDS", 0, c))
          /\ pc' = [pc EXCEPT ![t] = Propagate(ok, "r_wait")]
    /\ UNCHANGED <<slot, reset_commands, mutex, claimed, level, active, calls, fn,
                   config, stage, pos, handle, before>>

\* ...output()?: the child exits with some status and output() returns
ResetWait(t) ==
    /\ pc[t] = "r_wait"
    /\ \E code \in ExitCodes :
          /\ trace' = Record(t, Event("exit", "RESET_COMMANDS", code,
                                      CmdAt(Commands, pos[t])))
          /\ pc' = [pc EXCEPT ![t] = Propagate(OutputIsOk(code), "r_cmd_sleep")]
    /\ UNCHANGED <<slot, reset_commands, mutex, claimed, level, active, calls, fn,
                   config, stage, pos, handle, before>>

\* sleep(Duration::from_millis(100)) after a command, then the next one
ResetCmdSleep(t) ==
    /\ pc[t] = "r_cmd_sleep"
    /\ trace' = Record(t, Sleep("RESET_COMMANDS"))
    /\ IF pos[t] < Len(Commands)
       THEN /\ pos' = [pos EXCEPT ![t] = @ + 1]
            /\ pc' = [pc EXCEPT ![t] = "r_spawn"]
       ELSE /\ pos' = [pos EXCEPT ![t] = 0]
            /\ pc' = [pc EXCEPT ![t] = "ret_ok"]
    /\ UNCHANGED <<slot, reset_commands, mutex, claimed, level, active, calls, fn,
                   config, stage, handle, before>>

\* ---------------------------------------------------------------- system
Next ==
    \/ \E t \in Threads : CallSetupPins(t)
    \/ \E t \in Threads : CallReset(t)
    \/ \E t \in Threads : Return(t)
    \/ \E t \in Threads : SetupSkip(t)
    \/ \E t \in Threads : SetupOpen(t)
    \/ \E t \in Threads : SetupRequest(t)
    \/ \E t \in Threads : SetupStore(t)
    \/ \E t \in Threads : SetupCmdsSkip(t)
    \/ \E t \in Threads : SetupCmdsSome(t)
    \/ \E t \in Threads : SetupCmdsLock(t)
    \/ \E t \in Threads : SetupCmdsStore(t)
    \/ \E t \in Threads : ResetLockPin(t)
    \/ \E t \in Threads : ResetSetValue(t)
    \/ \E t \in Threads : ResetSleep(t)
    \/ \E t \in Threads : ResetLockCommands(t)
    \/ \E t \in Threads : ResetSpawn(t)
    \/ \E t \in Threads : ResetWait(t)
    \/ \E t \in Threads : ResetCmdSleep(t)

Spec == Init /\ [][Next]_vars
SpecSeq == InitSeq /\ [][Next]_vars

\* a step of thread t inside a call: every GPIO primitive, sleep and child
\* process returns, and a thread that can run is eventually scheduled
ThreadStep(t) ==
    \/ Return(t)
    \/ SetupSkip(t) \/ SetupOpen(t) \/ SetupRequest(t) \/ SetupStore(t)
    \/ SetupCmdsSkip(t) \/ SetupCmdsSome(t) \/ SetupCmdsLock(t) \/ SetupCmdsStore(t)
    \/ ResetLockPin(t) \/ ResetSetValue(t) \/ ResetSleep(t)
    \/ ResetLockCommands(t) \/ ResetSpawn(t) \/ ResetWait(t) \/ ResetCmdSleep(t)

Fairness == \A t \in Threads : WF_vars(ThreadStep(t))
\* the state after MaxCalls - 2 calls that changed nothing (reset() with
\* nothing configured), all lines low: two calls are left to run concurrently
InitFair ==
    /\ slot = [s \in PinSlots |-> None]
    /\ reset_commands = None
    /\ mutex = [s \in Slots |-> 0]
    /\ claimed = {}
    /\ level = [l \in Lines |-> 0]
    /\ active = Threads
    /\ calls = MaxCalls - 2
    /\ pc = [t \in Threads |-> "idle"]
    /\ fn = [t \in Threads |-> "none"]
    /\ config = [t \in Threads |-> ConfigurationDefault]
    /\ stage = [t \in Threads |-> 0]
    /\ pos = [t \in Threads |-> 0]
    /\ handle = [t \in Threads |-> 0]
    /\ trace = [t \in Threads |-> <<>>]
    /\ before = [t \in Threads |-> EmptyRegistry]

SpecFair == InitFair /\ [][Next]_vars /\ Fairness

\* ---------------------------------------------------------------- properties
\* the trace of a call, read as the claims read it
Indices(t) == DOMAIN trace[t]
IsSet(e) == e.op = "set"
IsFailure(e) == e.op \in {"set_err", "spawn_err"}
SetOn(e, s) == e.op = "set" /\ e.slot = s
Resetting(t) == fn[t] = "reset"
Succeeded(t) == pc[t] = "ret_ok"
Failed(t) == pc[t] = "ret_err"

\* the steps of the documented sequence: 1 power enable, 2 chip reset,
\* 3 companion radio reset, 4 DAC reset, 5 reset commands
StepNumber(s) == CASE s = "SX1302_POWER_EN" -> 1
                   [] s = "SX1302_RESET" -> 2
                   [] s = "SX1261_RESET" -> 3
                   [] s = "AD5338R_RESET" -> 4
                   [] s = "RESET_COMMANDS" -> 5

\* the levels written to the line of static s by the call of thread t
RECURSIVE LevelsOf(_, _)
LevelsOf(tr, s) ==
    IF tr = <<>> THEN <<>>
    ELSE IF SetOn(Head(tr), s) THEN <<Head(tr).val>> \o LevelsOf(Tail(tr), s)
    ELSE LevelsOf(Tail(tr), s)

\* the commands spawned by the call of thread t, in order
RECURSIVE Launched(_)
Launched(tr) ==
    IF tr = <<>> THEN <<>>
    ELSE IF Head(tr).op = "spawn" THEN <<Head(tr).cmd>> \o Launched(Tail(tr))
    ELSE Launched(Tail(tr))

\* number of events of kind op among the first n of the trace of thread t
CountBefore(t, op, n) == Cardinality({i \in Indices(t) : i < n /\ trace[t][i].op = op})

\* a wait lies between the two level changes of static s in the trace of t
DelayBetweenSets(t, s) ==
    \A i, j \in Indices(t) :
        (i < j /\ SetOn(trace[t][i], s) /\ SetOn(trace[t][j], s)) =>
            \E k \in Indices(t) : i < k /\ k < j /\ trace[t][k].op = "sleep"

\* C1: within one reset() call the operations follow the step order power
\* enable, chip reset, companion radio reset, DAC reset, commands, whatever
\* subset is configured, and when chip_power_enable is configured no other
\* line is set before it has been set HIGH.
C1_StepOrder ==
    \A t \in Threads : Resetting(t) =>
        /\ \A i, j \in Indices(t) :
              i < j => StepNumber(trace[t][i].slot) <= StepNumber(trace[t][j].slot)
        /\ IsSome(slot["SX1302_POWER_EN"]) =>
              \A j \in Indices(t) :
                  (IsSet(trace[t][j]) /\ trace[t][j].slot # "SX1302_POWER_EN") =>
                      \E i \in Indices(t) :
                          i < j /\ SetOn(trace[t][i], "SX1302_POWER_EN")
                                /\ trace[t][i].val = 1

\* a reset() call that drove all four lines and two commands has returned
C1_Witness ==
    \E t \in Threads :
        /\ Resetting(t) /\ Succeeded(t)
        /\ \A s \in PinSlots : IsSome(slot[s]) /\ LevelsOf(trace[t], s) # <<>>
        /\ Len(Launched(trace[t])) = 2

\* C2: a reset() call that does not fail, with chip_reset configured, sets
\* that line exactly twice, HIGH then LOW, with a wait in between.
C2_ChipResetPulse ==
    \A t \in Threads :
        (Resetting(t) /\ Succeeded(t) /\ IsSome(slot["SX1302_RESET"])) =>
            /\ LevelsOf(trace[t], "SX1302_RESET") = <<1, 0>>
            /\ DelayBetweenSets(t, "SX1302_RESET")

C2_Witness ==
    \E t \in Threads :
        /\ Resetting(t) /\ Succeeded(t) /\ IsSome(slot["SX1302_RESET"])
        /\ level[Line("SX1302_RESET")] = 0

\* C3: a reset() call that does not fail, with companion_radio_reset
\* (respectively dac_reset) configured, sets that line exactly twice, LOW
\* then HIGH, with a wait in between.
C3_ActiveLowPulses ==
    \A t \in Threads : \A s \in {"SX1261_RESET", "AD5338R_RESET"} :
        (Resetting(t) /\ Succeeded(t) /\ IsSome(slot[s])) =>
            /\ LevelsOf(trace[t], s) = <<0, 1>>
            /\ DelayBetweenSets(t, s)

C3_Witness ==
    \E t \in Threads :
        /\ Resetting(t) /\ Succeeded(t)
        /\ IsSome(slot["SX1261_RESET"]) /\ level[Line("SX1261_RESET")] = 1
        /\ IsSome(slot["AD5338R_RESET"]) /\ level[Line("AD5338R_RESET")] = 1
        /\ IsSome(slot["SX1302_RESET"])

\* C4: reset() performs no operation for a signal or command list that was
\* never configured and never fails because of its absence: a failing call
\* ends with a failed operation, and with nothing configured the call
\* succeeds without any operation.
NothingConfigured == (\A s \in PinSlots : slot[s] = None) /\ reset_commands = None

C4_AbsentSignalsSkipped ==
    \A t \in Threads : Resetting(t) =>
        /\ \A i \in Indices(t) :
              IF trace[t][i].slot = "RESET_COMMANDS"
              THEN IsSome(reset_commands)
              ELSE IsSome(slot[trace[t][i].slot])
        /\ Failed(t) => trace[t] # <<>> /\ IsFailure(trace[t][Len(trace[t])])
        /\ NothingConfigured => trace[t] = <<>> /\ ~Failed(t)

\* a reset() call has returned success after driving the two configured
\* lines, with the other two lines and the command list never configured
C4_Witness ==
    \E t \in Threads :
        /\ Resetting(t) /\ Succeeded(t)
        /\ slot["SX1302_POWER_EN"] = None /\ slot["SX1261_RESET"] = None
        /\ reset_commands = None
        /\ LevelsOf(trace[t], "SX1302_RESET") # <<>>
        /\ LevelsOf(trace[t], "AD5338R_RESET") # <<>>

\* a reset() call with nothing configured at all has returned success
C4_DefaultReturns ==
    \E t \in Threads : Resetting(t) /\ Succeeded(t) /\ NothingConfigured

\* C5: a reset() call that reaches the commands launches them in the stored
\* order, each at most once and all of them once it returns success, and
\* never launches a command while the previous one has not exited.
IsPrefix(p, q) == Len(p) <= Len(q) /\ \A i \in DOMAIN p : p[i] = q[i]

C5_CommandsInOrder ==
    \A t \in Threads : (Resetting(t) /\ IsSome(reset_commands)) =>
        /\ IsPrefix(Launched(trace[t]), Commands)
        /\ Succeeded(t) => Launched(trace[t]) = Commands
        /\ \A i \in Indices(t) :
              trace[t][i].op \in {"spawn", "spawn_err"} =>
                  CountBefore(t, "spawn", i) = CountBefore(t, "exit", i)

\* a reset() call has run cmd_a and then cmd_b to completion
C5_Witness ==
    \E t \in Threads :
        /\ Resetting(t) /\ Succeeded(t)
        /\ reset_commands = Some(<<<<"cmd_a", <<"1">>>>, <<"cmd_b", <<>>>>>>)
        /\ CountBefore(t, "exit", Len(trace[t])) = 2

\* C6: a setup_pins call fails only at a pin field that is present, and then
\* leaves the slots of the fields it processed before configured with the
\* lines it was given,
\* leaves the failing slot, every later slot and the command list as they
\* were before the call, and a later reset() drives every configured slot.
C6_SetupFailureKeepsEarlier ==
    \A t \in Threads :
        /\ (fn[t] = "setup_pins" /\ Failed(t)) =>
              /\ IsSome(config[t][Field[SetupOrder[stage[t]]]])
              /\ \A j \in 1..Len(SetupOrder) :
                    LET s == SetupOrder[j] IN
                    IF j < stage[t]
                    THEN IsSome(config[t][Field[s]]) => slot[s] = config[t][Field[s]]
                    ELSE slot[s] = before[t].slot[s]
              /\ reset_commands = before[t].reset_commands
        /\ (Resetting(t) /\ Succeeded(t)) =>
              \A s \in PinSlots : IsSome(slot[s]) => LevelsOf(trace[t], s) # <<>>

\* setup_pins has failed at dac_reset after configuring chip_reset
C6_Witness ==
    \E t \in Threads :
        /\ fn[t] = "setup_pins" /\ Failed(t) /\ stage[t] = 4
        /\ before[t].slot["SX1302_RESET"] = None
        /\ IsSome(slot["SX1302_RESET"])
        /\ IsSome(config[t].ad5338r_reset)

\* C7: a failed set-level operation or command launch is the last operation
\* of its reset() call, which returns an error, and every level the call has
\* set stays as it was set.
Last(q) == q[Len(q)]

C7_FailureAborts ==
    \A t \in Threads : Resetting(t) =>
        /\ \A i \in Indices(t) :
              IsFailure(trace[t][i]) => i = Len(trace[t]) /\ Failed(t)
        /\ \A s \in PinSlots :
              (IsSome(slot[s]) /\ LevelsOf(trace[t], s) # <<>>) =>
                  level[Line(s)] = Last(LevelsOf(trace[t], s))

\* reset() has failed with the chip reset line left HIGH and power enabled
C7_Witness ==
    \E t \in Threads :
        /\ Resetting(t) /\ Failed(t)
        /\ LevelsOf(trace[t], "SX1302_POWER_EN") = <<1>>
        /\ LevelsOf(trace[t], "SX1302_RESET") = <<1>>
        /\ level[Line("SX1302_RESET")] = 1

\* C8: a command that exits with a failure status ends its reset() call
\* with an error, and no further command runs.
C8_FailureExitIsError ==
    \A t \in Threads : Resetting(t) =>
        \A i \in Indices(t) :
            (trace[t][i].op = "exit" /\ trace[t][i].val # 0) =>
                i = Len(trace[t]) /\ Failed(t)

\* C9 as claimed: a slot that holds a handle holds it forever, and no line
\* is ever released.
C9_SlotsNeverReassigned ==
    [][/\ \A s \in PinSlots : IsSome(slot[s]) => slot'[s] = slot[s]
       /\ claimed \subseteq claimed']_vars

\* the step replaces the handle of static s: a setup_pins call stores the
\* handle of another line it was given for that signal
Replaces(s) ==
    \E t \in Threads :
        /\ fn[t] = "setup_pins" /\ pc[t] = "s_store" /\ SetupSlot(t) = s
        /\ config[t][Field[s]] = Some(handle[t])
        /\ slot'[s] = Some(handle[t])
        /\ handle[t] # Unwrap(slot[s])

\* C9 as amended: a slot that holds a handle is never cleared and no reset()
\* call changes it; its handle changes only when a setup_pins call stores a
\* handle to a different line for that signal, and then, and only then, the
\* line of the old handle is released.
C9_SlotsOnlyReplaced ==
    [][/\ \A s \in PinSlots : IsSome(slot[s]) =>
             /\ IsSome(slot'[s])
             /\ slot'[s] # slot[s] => Replaces(s) /\ Unwrap(slot[s]) \notin claimed'
       /\ \A l \in claimed \ claimed' :
             \E s \in PinSlots : slot[s] = Some(l) /\ Replaces(s)]_vars

\* a second setup_pins call has replaced line 1 by line 2 in the chip reset
\* slot, and line 1 is free again
C9_Witness ==
    \E t \in Threads :
        /\ fn[t] = "setup_pins"
        /\ before[t].slot["SX1302_RESET"] = Some(1)
        /\ slot["SX1302_RESET"] = Some(2)
        /\ 1 \notin claimed

\* C10 as claimed: reset() calls are not coordinated: a call that has
\* started to operate and has not finished never holds back another reset()
\* call, so that the operations of the two can interleave.
InCall(t) == pc[t] # "idle"
WaitsFor(u, t) ==
    /\ Resetting(u) /\ pc[u] = "r_lock" /\ mutex[ResetSlot(u)] = t

C10_ResetsNotCoordinated ==
    \A t, u \in Threads :
        (t # u /\ Resetting(t) /\ trace[t] # <<>> /\ pc[t] \notin {"ret_ok", "ret_err"})
            => ~WaitsFor(u, t)

\* C10 as amended: overlapping reset() calls are serialised by the lock of
\* the power enable slot, which a call takes first and keeps until it
\* returns: while a reset() call that has performed an operation is in
\* progress, no other reset() call performs one.
C10_ResetsSerialized ==
    \A t, u \in Threads :
        (t # u /\ Resetting(t) /\ InCall(t) /\ Resetting(u) /\ InCall(u)) =>
            trace[t] = <<>> \/ trace[u] = <<>>

\* a reset() call is between two of its operations while another reset()
\* call has been made and waits for the lock of the power enable slot
C10_Witness ==
    \E t, u \in Threads :
        /\ t # u /\ Resetting(t) /\ pc[t] = "r_sleep" /\ stage[t] = 2
        /\ WaitsFor(u, t) /\ stage[u] = 1

\* C11: reset() and setup_pins() calls made concurrently never deadlock: in
\* every state with a call in progress some call can take a step, a thread
\* that has returned holds no lock, and, every primitive returning and the
\* scheduling being fair, every call returns.
NeededLock(t) ==
    CASE pc[t] = "s_lock" -> SetupSlot(t)
      [] pc[t] = "s_cmds_lock" -> "RESET_COMMANDS"
      [] pc[t] = "r_lock" -> ResetSlot(t)
      [] OTHER -> "none"
Waiting(t) == NeededLock(t) # "none" /\ mutex[NeededLock(t)] # 0
NoDeadlock ==
    /\ (\E t \in Threads : InCall(t)) => \E t \in Threads : InCall(t) /\ ~Waiting(t)
    /\ \A t \in Threads : ~InCall(t) => \A s \in Slots : mutex[s] # t

C11_NoDeadlockEveryCallReturns ==
    /\ []NoDeadlock
    /\ \A t \in Threads : InCall(t) ~> ~InCall(t)

\* setup_pins waits for the lock of a slot that a reset() call holds, while
\* that reset() call goes on
C11_Witness ==
    \E t, u \in Threads :
        /\ fn[t] = "setup_pins" /\ Waiting(t) /\ mutex[NeededLock(t)] = u
        /\ Resetting(u) /\ pc[u] = "r_sleep" /\ trace[u] # <<>>

\* C12 (as stated): in every reachable state each pin slot is unconfigured or
\* holds a handle to a line this process has requested, no line is held by two
\* slots, and every line this process has claimed is referenced by exactly one
\* slot.
SlotsOf(l) == {s \in PinSlots : slot[s] = Some(l)}
InFlight(l) == {t \in Threads : pc[t] = "s_store" /\ handle[t] = l}
SlotsHoldClaimedLines ==
    /\ \A s \in PinSlots : IsSome(slot[s]) => Line(s) \in claimed
    /\ \A l \in Lines : Cardinality(SlotsOf(l)) <= 1

C12_EveryClaimedLineInOneSlot ==
    /\ SlotsHoldClaimedLines
    /\ \A l \in claimed : Cardinality(SlotsOf(l)) = 1

\* C12 (amended): each pin slot is unconfigured or holds a handle to a line
\* this process has requested, no line is held by two slots, and every line
\* this process has claimed is referenced by exactly one slot or is the
\* handle that one setup_pins call has requested and not yet stored.
C12_ClaimedLineInSlotOrInFlight ==
    /\ SlotsHoldClaimedLines
    /\ \A l \in claimed : Cardinality(SlotsOf(l)) + Cardinality(InFlight(l)) = 1

\* setup_pins has requested a second line for a signal whose slot still
\* holds the first: both lines are claimed, the new one is in no slot
C12_Witness ==
    \E t \in Threads : \E s \in PinSlots :
        /\ pc[t] = "s_store" /\ SetupSlot(t) = s
        /\ IsSome(slot[s]) /\ Line(s) # handle[t]
        /\ {Line(s), handle[t]} \subseteq claimed
        /\ SlotsOf(handle[t]) = {}

\* C13: a setup_pins call that names, for a signal, the line its slot already
\* holds requests that line again, the request is refused, the call returns
\* an error with the slot and the claimed lines unchanged, and a reset() call
\* that succeeds afterwards has driven every configured slot.
Reclaims(t) ==
    /\ fn[t] = "setup_pins" /\ pc[t] = "s_lock"
    /\ SetupField(t) = slot[SetupSlot(t)]

C13_ReclaimFailsSlotKept ==
    [][\A t \in Threads :
          /\ (Reclaims(t) /\ pc'[t] # pc[t]) =>
                /\ pc'[t] = "ret_err" /\ mutex'[SetupSlot(t)] = t
                /\ slot' = slot /\ claimed' = claimed /\ level' = level
          /\ (Resetting(t) /\ pc[t] # "ret_ok" /\ pc'[t] = "ret_ok") =>
                \A s \in PinSlots : IsSome(slot[s]) => LevelsOf(trace'[t], s) # <<>>]_vars

\* the second setup_pins call has been refused the line its slot holds since
\* before the call
C13_Witness ==
    \E t \in Threads :
        LET s == SetupOrder[stage[t]] IN
        /\ fn[t] = "setup_pins" /\ Failed(t) /\ mutex[s] = t
        /\ IsSome(slot[s]) /\ config[t][Field[s]] = slot[s]
        /\ before[t].slot[s] = slot[s]

\* C14: a setup_pins call that reaches a present reset_commands field stores
\* exactly the given list in place of the previous one and returns success,
\* no setup_pins call launches a command, and a reset() call that succeeds
\* has launched exactly the stored list, in order.
C14_CommandListStoredAsGiven ==
    [][\A t \in Threads :
          /\ (fn[t] = "setup_pins" /\ pc[t] \in {"s_cmds_lock", "s_cmds_store"}) =>
                /\ IsSome(config[t].reset_commands)
                /\ reset_commands = before[t].reset_commands
                /\ pc'[t] \in {"s_cmds_lock", "s_cmds_store", "ret_ok"}
                /\ pc'[t] = "ret_ok" => reset_commands' = config[t].reset_commands
          /\ fn[t] = "setup_pins" => trace'[t] = <<>> /\ trace[t] = <<>>
          /\ (Resetting(t) /\ pc'[t] = "ret_ok" /\ IsSome(reset_commands)) =>
                Launched(trace'[t]) = Unwrap(reset_commands)]_vars

\* setup_pins has replaced a stored list of one command by a different list
\* of two commands
C14_Witness ==
    \E t \in Threads :
        /\ fn[t] = "setup_pins" /\ Succeeded(t)
        /\ IsSome(before[t].reset_commands) /\ Len(Unwrap(before[t].reset_commands)) = 1
        /\ IsSome(config[t].reset_commands) /\ Len(Unwrap(config[t].reset_commands)) = 2
        /\ Unwrap(config[t].reset_commands)[1] # Unwrap(before[t].reset_commands)[1]
        /\ reset_commands = config[t].reset_commands

\* C15: a line that setup_pins has just been granted is at level LOW, and
\* the level of a line changes only when it is granted (to LOW) or when a
\* reset() call sets it through the slot that holds it, so a granted line
\* stays LOW until a reset() call sets it.
Granted(t) == fn[t] = "setup_pins" /\ pc[t] = "s_lock" /\ pc'[t] = "s_store"
SetsLine(t, l) ==
    /\ Resetting(t) /\ pc[t] = "r_set" /\ slot[ResetSlot(t)] = Some(l)
    /\ Len(trace'[t]) = Len(trace[t]) + 1
    /\ Last(trace'[t]) = Event("set", ResetSlot(t), level'[l], NoCmd)

C15_RequestedLowUntilReset ==
    [][/\ \A t \in Threads : Granted(t) =>
              /\ handle'[t] \in claimed' \ claimed
              /\ level'[handle'[t]] = 0
       /\ \A l \in Lines : level'[l] # level[l] =>
              \/ \E t \in Threads : Granted(t) /\ handle'[t] = l
              \/ \E t \in Threads : SetsLine(t, l)
       /\ \A t \in Threads : (fn[t] = "setup_pins" /\ pc[t] = "s_store") =>
              level[handle[t]] = 0]_vars

\* setup_pins has been granted a line that was HIGH before the request (the
\* lines never requested still are): it is LOW now
C15_Witness ==
    \E t \in Threads :
        /\ fn[t] = "setup_pins" /\ pc[t] = "s_store" /\ level[handle[t]] = 0
        /\ \A l \in Lines \ {handle[t]} : level[l] = 1

\* C16: no step of a reset() call, its return included, whether the call
\* succeeds or fails, changes a pin slot, the stored command list or the set
\* of claimed lines.
ResetStep(t) ==
    /\ Resetting(t) \/ fn'[t] = "reset"
    /\ <<pc[t], stage[t], pos[t], trace[t]>> # <<pc'[t], stage'[t], pos'[t], trace'[t]>>

C16_ResetKeepsRegistry ==
    [][\A t \in Threads : ResetStep(t) =>
          /\ slot' = slot
          /\ reset_commands' = reset_commands
          /\ claimed' = claimed]_vars

\* a reset() call has failed after driving a line, with pin slots and a
\* command list configured
C16_Witness ==
    \E t \in Threads :
        /\ Resetting(t) /\ Failed(t) /\ Len(trace[t]) > 2
        /\ IsSome(slot["SX1302_RESET"]) /\ IsSome(slot["SX1261_RESET"])
        /\ IsSome(reset_commands)

\* C17: in a reset() call every successful set-level operation and every
\* child process that has exited is followed by exactly one wait of 100 ms
\* before the next operation of the call or its return, and a call that is
\* at a wait does nothing else than complete it: no level changes, no error
\* path leaves it.
AtWait(t) == Resetting(t) /\ pc[t] \in {"r_sleep", "r_cmd_sleep"}
WaitsInPlace(tr, p) ==
    \A i \in DOMAIN tr :
        /\ tr[i].op \in {"set", "exit"} =>
              IF i < Len(tr)
              THEN tr[i + 1] = Event("sleep", tr[i].slot, SleepMillis, NoCmd)
              ELSE p \in {"r_sleep", "r_cmd_sleep"}
        /\ tr[i].op = "sleep" => i > 1 /\ tr[i - 1].op \in {"set", "exit"}

C17_WaitAfterEveryOperation ==
    [][\A t \in Threads :
          /\ Resetting(t) => WaitsInPlace(trace[t], pc[t])
          /\ fn'[t] = "reset" => WaitsInPlace(trace'[t], pc'[t])
          /\ (AtWait(t) /\ ResetStep(t)) =>
                /\ trace'[t] = Append(trace[t], Event("sleep", ResetSlot(t), SleepMillis, NoCmd))
                /\ level' = level
                /\ pc'[t] \in {"r_set", "r_lock", "r_spawn", "ret_ok"}]_vars

\* a reset() call has returned success after driving the chip reset line
\* and running a command: three waits, the last one just before the return
C17_Witness ==
    \E t \in Threads :
        /\ Resetting(t) /\ Succeeded(t)
        /\ CountBefore(t, "set", Len(trace[t])) = 2
        /\ CountBefore(t, "exit", Len(trace[t])) = 1
        /\ CountBefore(t, "sleep", Len(trace[t]) + 1) = 3
        /\ Last(trace[t]).op = "sleep"

\* C18: when a reset() call returns success, the line of every configured
\* pin slot is at its released level: power enable HIGH, chip reset LOW,
\* companion radio reset HIGH, DAC reset HIGH, whatever calls came before.
Released(s) == IF s = "SX1302_RESET" THEN 0 ELSE 1

C18_ReleasedLevelsOnSuccess ==
    \A t \in Threads : (Resetting(t) /\ Succeeded(t)) =>
        \A s \in PinSlots : IsSome(slot[s]) => level[Line(s)] = Released(s)

\* a reset() call returns success with all four signals configured, after
\* an earlier call was made
C18_Witness ==
    \E t \in Threads :
        /\ Resetting(t) /\ Succeeded(t) /\ calls = MaxCalls
        /\ \A s \in PinSlots : IsSome(slot[s])
        /\ level[Line("SX1302_POWER_EN")] = 1 /\ level[Line("SX1302_RESET")] = 0
        /\ level[Line("SX1261_RESET")] = 1 /\ level[Line("AD5338R_RESET")] = 1

\* C19: a reset() call holds the lock of every slot it has examined until it
\* returns, and while it does no step changes the content of such a slot; a
\* setup_pins call that runs meanwhile changes only slots the reset() call
\* has not reached.
Content(s) == IF s = "RESET_COMMANDS" THEN reset_commands ELSE slot[s]
ContentNext(s) == IF s = "RESET_COMMANDS" THEN reset_commands' ELSE slot'[s]
Reached(t, j) == Resetting(t) /\ (j < stage[t] \/ (j = stage[t] /\ pc[t] # "r_lock"))

C19_ExaminedSlotsStayLocked ==
    [][\A t \in Threads : \A j \in DOMAIN ResetOrder :
          Reached(t, j) =>
              /\ mutex[ResetOrder[j]] = t
              /\ ContentNext(ResetOrder[j]) = Content(ResetOrder[j])
              /\ pc'[t] # "idle" => mutex'[ResetOrder[j]] = t]_vars

\* while a reset() call that has examined only the power enable slot goes
\* on, a setup_pins call has configured the chip reset slot and now waits
\* for the lock of the power enable slot
C19_Witness ==
    \E t, u \in Threads :
        /\ Resetting(u) /\ stage[u] = 1 /\ pc[u] \in {"r_set", "r_sleep"}
        /\ IsSome(slot["SX1302_POWER_EN"])
        /\ fn[t] = "setup_pins" /\ pc[t] = "s_lock" /\ SetupSlot(t) = "SX1302_POWER_EN"
        /\ mutex["SX1302_POWER_EN"] = u
        /\ slot["SX1302_RESET"] # before[t].slot["SX1302_RESET"]

\* C20: a setup_pins call changes a pin slot or the stored command list only
\* for a field that is present in its Configuration, requests, releases or
\* drives a line only while it processes a present pin field, and when it
\* has returned every slot of an absent field is as it was before the call;
\* with the default Configuration it returns success and changes nothing.
SettingUp(t) == fn[t] = "setup_pins"
Present(t, s) == IsSome(config[t][Field[s]])
SetupStep(t) == SettingUp(t) /\ <<pc[t], stage[t]>> # <<pc'[t], stage'[t]>>

C20_AbsentFieldsUntouched ==
    [][\A t \in Threads : SetupStep(t) =>
          /\ \A s \in Slots : ContentNext(s) # Content(s) => Present(t, s)
          /\ (claimed' # claimed \/ level' # level) =>
                pc[t] \in {"s_lock", "s_store"} /\ Present(t, SetupSlot(t))
          /\ pc'[t] \in {"s_lock", "s_store", "ret_err"} =>
                IsSome(config'[t][Field[SetupOrder[stage'[t]]]])
          /\ pc'[t] \in {"ret_ok", "ret_err"} =>
                \A s \in Slots : config'[t][Field[s]] = None =>
                    ContentNext(s) = IF s = "RESET_COMMANDS" THEN before[t].reset_commands
                                     ELSE before[t].slot[s]
          /\ (pc'[t] \in {"ret_ok", "ret_err"} /\ config'[t] = ConfigurationDefault) =>
                pc'[t] = "ret_ok" /\ [slot |-> slot', reset_commands |-> reset_commands'] = before[t]]_vars

\* setup_pins returns from a call with the default Configuration, made when
\* two pin slots and a command list were configured
C20_Witness ==
    \E t \in Threads :
        /\ SettingUp(t) /\ Succeeded(t) /\ config[t] = ConfigurationDefault
        /\ IsSome(slot["SX1302_RESET"]) /\ IsSome(slot["SX1302_POWER_EN"])
        /\ IsSome(reset_commands)
        /\ Registry = before[t]

====
